---- MODULE Spec2Model ----
(***************************************************************************)
(* Model of Practices/Final_Exercise.py: load_yolo_labels and the          *)
(* module-level loop over os.listdir(".labels").                           *)
(*                                                                         *)
(* Text is modelled as a sequence of one-character strings, so that        *)
(* str.strip, str.split, str.endswith, int() and float() are computed      *)
(* character by character as Python computes them.  A float is held as an  *)
(* integer number of 10^-FracDigits units.  The character set of the       *)
(* model has no "e", "n", "i", "f" or "_", so exponents, "nan", "inf" and  *)
(* digit-group underscores do not arise.                                   *)
(***************************************************************************)
EXTENDS Integers, Sequences, FiniteSets, TLC

\* ------------------------------------------------------------------ bounds
\* Lines read from one file before the iterator is exhausted.
MaxLines == 2
\* Entries os.listdir returns.
MaxEntries == 2
\* Fractional decimal digits a float value keeps.
FracDigits == 2

\* ------------------------------------------------------- characters, text
Whitespace == {" ", "\t", "\n"}
DigitChars == <<"0", "1", "2", "3", "4", "5", "6", "7", "8", "9">>
Digits == {DigitChars[i] : i \in 1..10}

DigitVal(c) == (CHOOSE i \in 1..10 : DigitChars[i] = c) - 1

RECURSIVE Pow10(_)
Pow10(n) == IF n = 0 THEN 1 ELSE 10 * Pow10(n - 1)

\* The value of a run of decimal digits.
RECURSIVE NatVal(_)
NatVal(ds) ==
    IF ds = <<>> THEN 0
    ELSE 10 * NatVal(SubSeq(ds, 1, Len(ds) - 1)) + DigitVal(ds[Len(ds)])

AllDigits(ds) == \A i \in 1..Len(ds) : ds[i] \in Digits

\* str.strip(): whitespace removed at both ends.
RECURSIVE lstrip(_)
lstrip(s) == IF s # <<>> /\ s[1] \in Whitespace THEN lstrip(Tail(s)) ELSE s

RECURSIVE rstrip(_)
rstrip(s) ==
    IF s # <<>> /\ s[Len(s)] \in Whitespace
    THEN rstrip(SubSeq(s, 1, Len(s) - 1))
    ELSE s

strip(s) == rstrip(lstrip(s))

\* str.split(): the maximal runs of non-whitespace characters, in order.
RECURSIVE SplitAcc(_, _, _)
SplitAcc(s, cur, acc) ==
    IF s = <<>> THEN (IF cur = <<>> THEN acc ELSE Append(acc, cur))
    ELSE IF s[1] \in Whitespace
         THEN SplitAcc(Tail(s), <<>>, IF cur = <<>> THEN acc ELSE Append(acc, cur))
         ELSE SplitAcc(Tail(s), Append(cur, s[1]), acc)

split(s) == SplitAcc(s, <<>>, <<>>)

\* str.endswith(suffix)
endswith(s, suffix) ==
    /\ Len(s) >= Len(suffix)
    /\ SubSeq(s, Len(s) - Len(suffix) + 1, Len(s)) = suffix

\* -------------------------------------------------------- int() and float()
Signed(t) == t # <<>> /\ t[1] \in {"+", "-"}
Unsigned(t) == IF Signed(t) THEN Tail(t) ELSE t
SignOf(t) == IF t # <<>> /\ t[1] = "-" THEN -1 ELSE 1

\* int(t) raises ValueError unless t is an optional sign and one or more digits.
IntRaises(t) == ~(Unsigned(t) # <<>> /\ AllDigits(Unsigned(t)))

int(t) == SignOf(t) * NatVal(Unsigned(t))

\* Position of the first "." of t, or Len(t) + 1.
RECURSIVE DotAt(_, _)
DotAt(t, i) == IF i > Len(t) \/ t[i] = "." THEN i ELSE DotAt(t, i + 1)

IntPart(t) == SubSeq(Unsigned(t), 1, DotAt(Unsigned(t), 1) - 1)
FracPart(t) == SubSeq(Unsigned(t), DotAt(Unsigned(t), 1) + 1, Len(Unsigned(t)))

\* float(t) raises ValueError unless t is an optional sign and digits with at
\* most one ".", at least one digit in all.
FloatRaises(t) ==
    ~ /\ AllDigits(IntPart(t))
      /\ AllDigits(FracPart(t))
      /\ Len(IntPart(t)) + Len(FracPart(t)) >= 1

\* The fraction digits as a number of 10^-FracDigits units.
FracVal(fp) ==
    IF Len(fp) >= FracDigits
    THEN NatVal(SubSeq(fp, 1, FracDigits))
    ELSE NatVal(fp) * Pow10(FracDigits - Len(fp))

float(t) == SignOf(t) * (NatVal(IntPart(t)) * Pow10(FracDigits) + FracVal(FracPart(t)))

\* ------------------------------------------------- one line of a label file
\* The comprehension below with each pair built as (y, x).
RECURSIVE CoordsSwapped(_, _, _)
CoordsSwapped(parts, i, acc) ==
    IF i > Len(parts) THEN [exc |-> "none", coords |-> acc]
    ELSE IF FloatRaises(parts[i]) THEN [exc |-> "ValueError", coords |-> <<>>]
    ELSE IF i + 1 > Len(parts) THEN [exc |-> "IndexError", coords |-> <<>>]
    ELSE IF FloatRaises(parts[i + 1]) THEN [exc |-> "ValueError", coords |-> <<>>]
    ELSE CoordsSwapped(parts, i + 2,
                       Append(acc, <<float(parts[i + 1]), float(parts[i])>>))

\* The list comprehension of lines 28-31: i steps over range(1, len(parts), 2)
\* (here the 1-based index i); float(parts[i]) is evaluated first, then
\* parts[i + 1] is subscripted (IndexError past the end), then float of it.
RECURSIVE Coords(_, _, _)
Coords(parts, i, acc) ==
    IF i > Len(parts) THEN [exc |-> "none", coords |-> acc]
    ELSE IF FloatRaises(parts[i]) THEN [exc |-> "ValueError", coords |-> <<>>]
    ELSE IF i + 1 > Len(parts) THEN [exc |-> "IndexError", coords |-> <<>>]
    ELSE IF FloatRaises(parts[i + 1]) THEN [exc |-> "ValueError", coords |-> <<>>]
    ELSE Coords(parts, i + 2,
                Append(acc, <<float(parts[i]), float(parts[i + 1])>>))

\* The class id with its sign dropped.
ClsIdAbs(parts) == NatVal(Unsigned(parts[1]))

\* cls_id = int(parts[0]), once int() has not raised.
ClsId(parts) == int(parts[1])

\* Lines 26-32 on a non-blank line: the exception raised, or the tuple appended.
ParseLine(ln) ==
    LET parts == split(strip(ln)) IN
    IF IntRaises(parts[1]) THEN [exc |-> "ValueError", label |-> <<>>]
    ELSE LET c == Coords(parts, 2, <<>>) IN
         IF c.exc # "none" THEN [exc |-> c.exc, label |-> <<>>]
         ELSE [exc |-> "none", label |-> <<ClsId(parts), c.coords>>]

\* ------------------------------------------------------------ the inputs
\* Tokens of the label files.
t0 == <<"0">>
t1 == <<"1">>
t2 == <<"2">>
tNeg1 == <<"-", "1">>
tAbc == <<"a", "b", "c">>
tX == <<"x">>
d01 == <<"0", ".", "1">>
d02 == <<"0", ".", "2">>
d03 == <<"0", ".", "3">>
d04 == <<"0", ".", "4">>
d05 == <<"0", ".", "5">>
d06 == <<"0", ".", "6">>
d07 == <<"0", ".", "7">>
d10 == <<"1", ".", "0">>
d15 == <<"1", ".", "5">>
dP5 == <<".", "5">>
dNeg01 == <<"-", "0", ".", "1">>

\* The tokens joined by single spaces.
RECURSIVE Join(_)
Join(toks) ==
    IF toks = <<>> THEN <<>>
    ELSE IF Len(toks) = 1 THEN toks[1]
    ELSE toks[1] \o <<" ">> \o Join(Tail(toks))

\* A line as the file iterator yields it: the text and its newline.
L(toks) == Join(toks) \o <<"\n">>

\* The lines a label file may hold.
GoodLines ==
    { L(<<t0, d01, d02, d03, d04, d05, d06>>),
      <<" ">> \o t1 \o <<"\t">> \o Join(<<t0, d10, dP5, d05, t1, t0>>) \o <<" ", "\n">> }

BlankLines == { <<"\n">>, <<" ", "\t", "\n">> }

FewPointLines ==
    { L(<<t1, d01, d02>>),
      t1,                                   \* a last line without its newline
      L(<<t1, d01, d02, d03, d04>>) }

OutOfRangeLines ==
    { L(<<t2, d01, d02, d15, d03>>),
      L(<<t2, d01, d02, d03, d04, d15, d06>>),
      L(<<t0, dNeg01, d02, d03, d04, d05, d06>>) }

MalformedLines ==
    { L(<<tAbc, d01, d02, d03, d04, d05, d06>>),
      L(<<d10, d01, d02, d03, d04, d05, d06>>),
      L(<<t0, d01, tX, d03, d04, d05, d06>>) }

OddLines ==
    { L(<<t0, d01, d02, d03>>),
      L(<<t0, d01, d02, d03, d04, d05, d06, d07>>),
      L(<<t0, d01, d02, tX, d04, d05>>) }

NegativeClassLines == { L(<<tNeg1, d01, d02, d03, d04, d05, d06>>) }

LinePool ==
    GoodLines \cup BlankLines \cup FewPointLines \cup OutOfRangeLines
      \cup MalformedLines \cup OddLines \cup NegativeClassLines

\* The names os.listdir may return.
NamePool ==
    { <<"a", ".", "t", "x", "t">>,
      <<"b", ".", "t", "x", "t">>,
      <<"t", "x", "t">>,
      <<"c", ".", "t", "x", "t", ".", "b", "a", "k">> }

\* A directory listing holds each name once.
Listings ==
    UNION { { s \in [1..n -> NamePool] : \A i, j \in 1..n : s[i] = s[j] => i = j }
            : n \in 0..MaxEntries }

\* What open(txt_path, "r") does: it succeeds or raises an OSError.
OpenOutcomes == {"ok", "FileNotFoundError", "PermissionError"}

\* ------------------------------------------------------------- the program
labels_dir == <<".", "l", "a", "b", "e", "l", "s">>
suffix == <<".", "t", "x", "t">>

\* os.path.join(labels_dir, txt_path), txt_path a bare name.
full_path(txt_path) == labels_dir \o <<"/">> \o txt_path

VARIABLES
    listing,    \* os.listdir(labels_dir), fixed once the loop starts
    idx,        \* entries of listing the for loop has taken
    pc,         \* "loop", "call", "scan", "done" or "crashed"
    labels,     \* the list load_yolo_labels builds
    line,       \* the line the file iterator yielded last
    lineno,     \* lines the file iterator has yielded
    handles,    \* paths of the file objects that are open
    exc,        \* the exception that ended the program, or "none"
    out         \* stdout: one record for each print executed

vars == <<listing, idx, pc, labels, line, lineno, handles, exc, out>>

Init ==
    /\ listing \in Listings
    /\ idx = 0
    /\ pc = "loop"
    /\ labels = <<>>
    /\ line = <<>>
    /\ lineno = 0
    /\ handles = {}
    /\ exc = "none"
    /\ out = <<>>

\* An exit that closes the file on the normal path only.
WithExitLeaky(hs, p, e) == IF e = "none" THEN hs \ {p} ELSE hs

\* The with statement's exit: the file object is closed whether the block
\* ended normally (e = "none") or by exception e.
WithExit(hs, p, e) == hs \ {p}

\* Line 37-38: the for loop takes an entry that does not end in ".txt".
SkipEntry ==
    /\ pc = "loop"
    /\ idx < Len(listing)
    /\ ~endswith(listing[idx + 1], suffix)
    /\ idx' = idx + 1
    /\ UNCHANGED <<listing, pc, labels, line, lineno, handles, exc, out>>

\* Lines 37-40: the for loop takes an entry ending in ".txt" and prints.
LoadEntry ==
    /\ pc = "loop"
    /\ idx < Len(listing)
    /\ endswith(listing[idx + 1], suffix)
    /\ idx' = idx + 1
    /\ out' = Append(out, [ev |-> "Loading", path |-> full_path(listing[idx + 1]), n |-> 0])
    /\ pc' = "call"
    /\ UNCHANGED <<listing, labels, line, lineno, handles, exc>>

\* Line 37: the listing is exhausted and the module ends.
LoopEnd ==
    /\ pc = "loop"
    /\ idx = Len(listing)
    /\ pc' = "done"
    /\ UNCHANGED <<listing, idx, labels, line, lineno, handles, exc, out>>

\* Lines 20-22: labels = [] and open() succeeds.
OpenOk ==
    /\ pc = "call"
    /\ labels' = <<>>
    /\ handles' = handles \cup {full_path(listing[idx])}
    /\ pc' = "scan"
    /\ UNCHANGED <<listing, idx, line, lineno, exc, out>>

\* Line 22: open() raises; nothing catches it, in the function or the loop.
OpenRaises ==
    /\ pc = "call"
    /\ \E e \in OpenOutcomes \ {"ok"} : exc' = e
    /\ labels' = <<>>
    /\ pc' = "crashed"
    /\ UNCHANGED <<listing, idx, line, lineno, handles, out>>

\* The file iterator can yield another line: the last one ended in a newline.
MoreLines ==
    /\ lineno < MaxLines
    /\ IF lineno = 0 THEN TRUE ELSE line[Len(line)] = "\n"

\* Lines 23-25: a whitespace-only line is skipped.
IterBlank ==
    /\ pc = "scan"
    /\ MoreLines
    /\ \E ln \in LinePool :
         /\ strip(ln) = <<>>
         /\ line' = ln
    /\ lineno' = lineno + 1
    /\ UNCHANGED <<listing, idx, pc, labels, handles, exc, out>>

\* Lines 23-32: a line is split, converted and appended.
IterAppend ==
    /\ pc = "scan"
    /\ MoreLines
    /\ \E ln \in LinePool :
         /\ strip(ln) # <<>>
         /\ ParseLine(ln).exc = "none"
         /\ line' = ln
         /\ labels' = Append(labels, ParseLine(ln).label)
    /\ lineno' = lineno + 1
    /\ UNCHANGED <<listing, idx, pc, handles, exc, out>>

\* Lines 26-31: int(), float() or the subscript raises; the with statement
\* closes the file and the exception leaves the function and the loop.
IterRaises ==
    /\ pc = "scan"
    /\ MoreLines
    /\ \E ln \in LinePool :
         /\ strip(ln) # <<>>
         /\ ParseLine(ln).exc # "none"
         /\ line' = ln
         /\ exc' = ParseLine(ln).exc
         /\ handles' = WithExit(handles, full_path(listing[idx]), ParseLine(ln).exc)
    /\ lineno' = lineno + 1
    /\ labels' = <<>>
    /\ pc' = "crashed"
    /\ UNCHANGED <<listing, idx, out>>

\* Lines 23, 34, 41-42: the iterator is exhausted, the with statement closes
\* the file, the list is returned and printed.  stdout keeps of the printed
\* list its length.
Return ==
    /\ pc = "scan"
    /\ handles' = WithExit(handles, full_path(listing[idx]), "none")
    /\ out' = Append(out, [ev |-> "Loaded", path |-> full_path(listing[idx]), n |-> Len(labels)])
    /\ labels' = <<>>
    /\ line' = <<>>
    /\ lineno' = 0
    /\ pc' = "loop"
    /\ UNCHANGED <<listing, idx, exc>>

Next ==
    \/ SkipEntry
    \/ LoadEntry
    \/ LoopEnd
    \/ OpenOk
    \/ OpenRaises
    \/ IterBlank
    \/ IterAppend
    \/ IterRaises
    \/ Return

Spec == Init /\ [][Next]_vars

\* ------------------------------------------------------------- properties
\* The tokens of a line and what the format asks of them.
Parts(ln) == split(strip(ln))
NonBlank(ln) == strip(ln) # <<>>
CoordTokens(ln) == Tail(Parts(ln))
InRange(v) == 0 <= v /\ v <= Pow10(FracDigits)

AllCoordsParse(ln) ==
    \A i \in 1..Len(CoordTokens(ln)) : ~FloatRaises(CoordTokens(ln)[i])

HasOutOfRange(ln) ==
    \E i \in 1..Len(CoordTokens(ln)) :
        /\ ~FloatRaises(CoordTokens(ln)[i])
        /\ ~InRange(float(CoordTokens(ln)[i]))

OddCount(ln) == Len(CoordTokens(ln)) % 2 = 1
FewPoints(ln) == Len(CoordTokens(ln)) \div 2 < 3
Malformed(ln) == IntRaises(Parts(ln)[1]) \/ ~AllCoordsParse(ln)

ValidLine(ln) ==
    /\ NonBlank(ln)
    /\ ~IntRaises(Parts(ln)[1])
    /\ ~OddCount(ln)
    /\ Len(CoordTokens(ln)) >= 6
    /\ AllCoordsParse(ln)
    /\ ~HasOutOfRange(ln)

\* The consecutive (x, y) pairs of the coordinate tokens, in their order.
ExpectedPolygon(ln) ==
    [k \in 1..(Len(CoordTokens(ln)) \div 2) |->
        <<float(CoordTokens(ln)[2 * k - 1]), float(CoordTokens(ln)[2 * k])>>]

\* The decimal i.t as a float value of the model.
Dec(i, t) == i * Pow10(FracDigits) + t * Pow10(FracDigits - 1)

Last(s) == s[Len(s)]

\* A step in which the file iterator yields a line to the loop body.
IterStep == pc = "scan" /\ lineno' = lineno + 1

ScenarioLine == L(<<t0, d01, d02, d03, d04, d05, d06>>)
ScenarioLabel ==
    <<0, <<<<Dec(0, 1), Dec(0, 2)>>, <<Dec(0, 3), Dec(0, 4)>>, <<Dec(0, 5), Dec(0, 6)>>>>>>

RaggedLine == <<" ">> \o t1 \o <<"\t">> \o Join(<<t0, d10, dP5, d05, t1, t0>>) \o <<" ", "\n">>
RaggedLabel ==
    <<1, <<<<Dec(0, 0), Dec(1, 0)>>, <<Dec(0, 5), Dec(0, 5)>>, <<Dec(1, 0), Dec(0, 0)>>>>>>

\* C1: every non-blank line is absorbed by the scan: a valid line adds its
\* record, an invalid line adds none, and in both cases the scan goes on with
\* no exception leaving load_yolo_labels.
C1_SkipAndContinue ==
    [][IterStep /\ NonBlank(line') =>
        /\ pc' = "scan"
        /\ exc' = "none"
        /\ labels' = IF ValidLine(line')
                     THEN Append(labels, <<int(Parts(line')[1]), ExpectedPolygon(line')>>)
                     ELSE labels]_vars

\* C2: a call whose open() fails (no file object is acquired) does not raise:
\* it returns the empty list, which the caller prints, and the loop resumes.
C2_OpenFailureReturnsEmpty ==
    [][pc = "call" /\ handles' = handles =>
        /\ exc' = "none"
        /\ pc' = "loop"
        /\ out' = Append(out, [ev |-> "Loaded", path |-> full_path(listing[idx]), n |-> 0])]_vars

\* The paths of the results printed so far, in order.
LoadedPaths ==
    LET done == SelectSeq(out, LAMBDA e : e.ev = "Loaded")
    IN  [i \in 1..Len(done) |-> done[i].path]

TxtEntries == SelectSeq(listing, LAMBDA nm : endswith(nm, suffix))

\* C3: when the module has ended it ended normally, with one result for every
\* listed entry ending in ".txt", in listing order.
C3_EveryEntryLoaded ==
    pc \in {"done", "crashed"} =>
        /\ pc = "done"
        /\ exc = "none"
        /\ LoadedPaths = [i \in 1..Len(TxtEntries) |-> full_path(TxtEntries[i])]

\* C4: a valid line (integer token 0, an even number >= 6 of in-range
\* coordinate tokens) adds exactly one record and raises nothing; the record
\* is token 0 as an integer with the consecutive (x, y) pairs of the other
\* tokens in order.  "0 0.1 0.2 0.3 0.4 0.5 0.6" gives
\* (0, [(0.1, 0.2), (0.3, 0.4), (0.5, 0.6)]).
C4_ValidLineOneRecord ==
    [][IterStep /\ ValidLine(line') =>
        /\ pc' = "scan"
        /\ exc' = "none"
        /\ labels' = Append(labels, <<int(Parts(line')[1]), ExpectedPolygon(line')>>)
        /\ (line' = ScenarioLine => Last(labels') = ScenarioLabel)
        /\ (line' = RaggedLine => Last(labels') = RaggedLabel)]_vars

C4_Witness ==
    /\ pc = "scan"
    /\ lineno = 2
    /\ line = ScenarioLine
    /\ ValidLine(line)
    /\ Len(labels) = 2
    /\ labels[1] = RaggedLabel
    /\ labels[2] = ScenarioLabel

\* C5: a line with an odd number of coordinate tokens adds no record and the
\* scan goes on to the next line.
C5_OddCountSkipped ==
    [][IterStep /\ NonBlank(line') /\ OddCount(line') =>
        /\ labels' = labels
        /\ pc' = "scan"
        /\ exc' = "none"]_vars

\* C6: a line with a coordinate outside [0.0, 1.0] adds no record, whether or
\* not it also has fewer than 3 points.
C6_OutOfRangeNoRecord ==
    [][IterStep /\ NonBlank(line') /\ HasOutOfRange(line') => labels' = labels]_vars

\* C7: a line whose coordinate tokens pair up into fewer than 3 points adds no
\* record, and no record added has a polygon of fewer than 3 points.
C7_FewPointsNoRecord ==
    [][IterStep /\ NonBlank(line') =>
        /\ (FewPoints(line') => labels' = labels)
        /\ (labels' = labels \/ labels' = <<>> \/ Len(Last(labels')[2]) >= 3)]_vars

\* C8: a line whose token 0 is not an integer or one of whose coordinate
\* tokens is not a float adds no record and the scan goes on to the next line.
C8_MalformedSkipped ==
    [][IterStep /\ NonBlank(line') /\ Malformed(line') =>
        /\ labels' = labels
        /\ pc' = "scan"
        /\ exc' = "none"]_vars

\* C9: outside the with block of load_yolo_labels no file object is open:
\* after the call has ended, by return or by exception, its handle is closed.
C9_HandleReleased == pc # "scan" => handles = {}

C9_Witness ==
    /\ pc = "crashed"
    /\ exc \in {"ValueError", "IndexError"}
    /\ lineno = 2
    /\ handles = {}

====
